---- MODULE Spec2Model ----
(***************************************************************************)
(* CRYPTOPAY: the Flask payment service of src/cryp.py as a state machine. *)
(* Each request is served by a worker thread; a handler is cut into steps  *)
(* at its accesses to the shared state: the rate limiter's dictionary, the *)
(* exchange rate cache, the payment history file and the charge provider.  *)
(* A step that touches no shared state is joined to the shared access that *)
(* follows it.                                                             *)
(***************************************************************************)
EXTENDS Integers, Sequences, FiniteSets, Bags, TLC

(* ---------------- bounds of the model ---------------- *)
NumThreads == 2
NumClients == 1
MaxRequests == 3
MaxTicks == 1

(* ---------------- program constants ---------------- *)
CACHE_DURATION == 3600
RATE_LIMIT_requests == 100
RATE_LIMIT_window == 3600
DefaultRate == 1

Threads == 1..NumThreads
\* request.remote_addr of the clients
Clients == 1..NumClients

\* time.time() at process start is far past the epoch: the initial cache
\* timestamp 0 is older than CACHE_DURATION.
StartTime == CACHE_DURATION
\* the clock moves by a whole freshness window (which is also the limiter's window)
TickSteps == {CACHE_DURATION}

(* ---------------- Currency Catalog ---------------- *)
\* SUPPORTED_CRYPTOS and SUPPORTED_CURRENCIES are used by cryp.py and defined in
\* neither source file; they are modelled after the specification's Currency
\* Catalog: a mapping crypto code -> display metadata, and the fiat codes.
SUPPORTED_CRYPTOS == [c \in {"BTC", "ETH"} |-> [name |-> IF c = "BTC" THEN "Bitcoin" ELSE "Ethereum"]]
SUPPORTED_CURRENCIES == {"USD", "EUR"}

(* ---------------- request inputs ---------------- *)
RateLimited == {"create_payment", "get_exchange_rate", "get_currencies", "get_payment_history"}
Routes == RateLimited \cup {"webhook"}
\* the JSON body's "amount": a number, a non-numeric string, or absent
AmountInputs == {"25", "-5", "abc", "absent"}
CurrencyInputs == {"EUR", "XXX"}
CryptoInputs == {"ZZZ", "absent"}
DescriptionInputs == {"absent", "order 7"}
EventTypes == {"charge:confirmed", "charge:failed"}
\* the Authorization header: none, a string that is no JWT, a JWT signed with
\* another key, a JWT of this key without the 'user' claim, a JWT of this key
\* with it
Tokens == {"absent", "malformed", "wrong_signature", "no_user_claim", "valid"}
\* the charge ids a notification may name: issued ones and ones never issued
MaxChargeId == 2
ChargeIds == 1..MaxChargeId

\* float(x): the value, for the inputs float() accepts
IsFloat(a) == a \in {"25", "0", "-5"}
Float(a) == CASE a = "25" -> 25 [] a = "0" -> 0 [] a = "-5" -> 0 - 5

\* dict.get(key, default) on the request body
GetOr(v, default) == IF v = "absent" THEN default ELSE v

\* validate_payment_amount: float(amount) again, then amount <= 0
validate_payment_amount(amount) == ~(amount <= 0)

(* ---------------- rates ---------------- *)
EmptyRates == <<>>
\* what the rate provider may answer: {"rates": {...}}
ProviderRates == {("USD" :> 1), ("USD" :> 1 @@ "EUR" :> 2)}
\* requests.get(...).json()['rates']: a network error, a body that is not JSON
\* and a JSON body without "rates" all raise
FetchFailures == {"network_error", "not_json", "no_rates_key"}
\* a part of the request the handler did not get to read
Unread == "unread"

\* exchange_rates.get(currency, 1.0)
RateFor(rates, currency) == IF currency \in DOMAIN rates THEN rates[currency] ELSE DefaultRate

(* ---------------- payment records ---------------- *)
\* str(PaymentStatus.PENDING), as json.dump(..., default=str) writes the enum
PENDING_str == "PaymentStatus.PENDING"
\* PaymentStatus.COMPLETED.value
COMPLETED_value == "completed"

HostedUrl(id) == <<"https://commerce.example/charges", id>>

\* payment_info.__dict__ as written to the file; 'completed_at' is a key the
\* webhook adds: its absence is the empty set
PaymentInfo(id, amount, currency, crypto, ts, rate, email, description) ==
    [id |-> id, amount |-> amount, currency |-> currency, crypto |-> crypto,
     status |-> PENDING_str, timestamp |-> ts, payment_url |-> HostedUrl(id),
     exchange_rate |-> rate, customer_email |-> email, description |-> description,
     completed_at |-> {}]

\* now: time.time(); cache: exchange_rate_cache; ip_requests: RATE_LIMIT['ip_requests'];
\* file: payment_history.json; charges: the highest charge id the provider issued;
\* pc, req, loc, resp: each worker thread's position, request, locals and response;
\* started: the requests received. History variables, read by no action:
\* stored (rates were stored once), admitLog (the admitted requests), overlapped
\* (two requests were in progress together), confirmed (the charge ids of the
\* verified confirmations processed).
VARIABLES now, cache, stored, ip_requests, admitLog, file, charges,
          pc, req, loc, resp, started, overlapped, confirmed

vars == <<now, cache, stored, ip_requests, admitLog, file, charges,
          pc, req, loc, resp, started, overlapped, confirmed>>

NoReq == [route |-> "none", ip |-> 0, amount |-> Unread, currency |-> Unread,
          crypto |-> Unread, description |-> Unread, token |-> Unread, sigOk |-> TRUE,
          evtype |-> Unread, chargeId |-> 0]
NoLoc == [current_time |-> 0, cleaned |-> <<>>, rates |-> EmptyRates, history |-> <<>>,
          payment |-> <<>>, fetch |-> "none", limiter |-> "none", seen |-> 0,
          invoked |-> FALSE, saved |-> FALSE, applied |-> FALSE, stamp |-> 0]
NoResp == [status |-> 0, success |-> FALSE, error |-> "none"]

Response(status, success, error) == [status |-> status, success |-> success, error |-> error]

InitCommon ==
    /\ now = StartTime
    /\ cache = [rates |-> EmptyRates, timestamp |-> 0]
    /\ stored = FALSE
    /\ ip_requests = <<>>
    /\ admitLog = EmptyBag
    /\ file = <<>>
    /\ charges = 0
    /\ pc = [t \in Threads |-> "idle"]
    /\ req = [t \in Threads |-> NoReq]
    /\ loc = [t \in Threads |-> NoLoc]
    /\ resp = [t \in Threads |-> NoResp]
    /\ started = 0
    /\ overlapped = FALSE
    /\ confirmed = {}

Init == InitCommon

\* a thread finishes its request with a response
Finish(t, r) ==
    /\ pc' = [pc EXCEPT ![t] = "done"]
    /\ resp' = [resp EXCEPT ![t] = r]

\* the locals that die with the handler's frame
Drop(l) == [l EXCEPT !.current_time = 0, !.cleaned = <<>>, !.history = <<>>]

Goto(t, label) ==
    /\ pc' = [pc EXCEPT ![t] = label]
    /\ UNCHANGED resp

(* ---------------- request arrival ---------------- *)
FirstStep(route) ==
    CASE route \in RateLimited -> "rl_clean"
      [] route = "webhook" -> "wh_verify"

\* the handler a rate-limited route runs once admitted: f(*args, **kwargs)
Handler(route) ==
    CASE route = "create_payment" -> "cp_validate"
      [] route = "get_exchange_rate" -> "ger_check"
      [] route = "get_currencies" -> "gc_respond"
      [] route = "get_payment_history" -> "tk_check"

\* the headers a request arrives with, as far as its route looks at them
Headers(route) == IF route = "get_payment_history" THEN Tokens ELSE {Unread}

Start(t) ==
    /\ pc[t] = "idle"
    /\ started < MaxRequests
    /\ overlapped' = (overlapped \/ \E u \in Threads : pc[u] \notin {"idle", "done"})
    /\ \E route \in Routes : \E token \in Headers(route) :
          /\ req' = [req EXCEPT ![t] = [NoReq EXCEPT !.route = route, !.token = token]]
          /\ Goto(t, FirstStep(route))
    /\ started' = started + 1
    /\ UNCHANGED <<now, cache, stored, ip_requests, admitLog, file, charges, loc, confirmed>>

Return(t) ==
    /\ pc[t] = "done"
    /\ pc' = [pc EXCEPT ![t] = "idle"]
    /\ req' = [req EXCEPT ![t] = NoReq]
    /\ loc' = [loc EXCEPT ![t] = NoLoc]
    /\ resp' = [resp EXCEPT ![t] = NoResp]
    /\ UNCHANGED <<now, cache, stored, ip_requests, admitLog, file, charges,
                   started, overlapped, confirmed>>

\* The clock is read in whole windows: a request is served within one reading,
\* and the clock moves between requests, and while a request waits for a
\* provider that does not answer.
Tick ==
    /\ \A t \in Threads : pc[t] \in {"idle", "done", "ger_blocked"}
    /\ \E d \in TickSteps :
          /\ now + d <= StartTime + MaxTicks * CACHE_DURATION
          /\ now' = now + d
    /\ UNCHANGED <<cache, stored, ip_requests, admitLog, file, charges,
                   pc, req, loc, resp, started, overlapped, confirmed>>

(* ---------------- rate_limit ---------------- *)
\* how many requests of ip were admitted at instants within the window before t
Within(log, ip, t) ==
    BagCardinality([e \in {x \in DOMAIN log : x.ip = ip /\ t - x.at < RATE_LIMIT_window} |-> log[e]])

\* the clean-up comprehension evaluates current_time - timestamp for every entry,
\* timestamp being the entry's list of instants: float - list raises TypeError
CleanupRaises(reqs) == DOMAIN reqs # {}
\* ... and over an empty dictionary it yields an empty dictionary
Cleaned(reqs) == <<>>

\* lines 105-112, the right-hand side: an exception in the decorator is not
\* caught by any handler; Flask answers 500
RlClean(t) ==
    /\ pc[t] = "rl_clean"
    /\ \E ip \in Clients :
          /\ req' = [req EXCEPT ![t].ip = ip]
          /\ IF CleanupRaises(ip_requests)
             THEN /\ Finish(t, Response(500, FALSE, "TypeError"))
                  /\ loc' = [loc EXCEPT ![t].limiter = "error",
                                        ![t].seen = Within(admitLog, ip, now)]
             ELSE /\ Goto(t, "rl_assign")
                  /\ loc' = [loc EXCEPT ![t].current_time = now,
                                        ![t].seen = Within(admitLog, ip, now),
                                        ![t].cleaned = Cleaned(ip_requests)]
    /\ UNCHANGED <<now, cache, stored, ip_requests, admitLog, file, charges,
                   started, overlapped, confirmed>>

\* line 109: RATE_LIMIT['ip_requests'] = {...}
RlAssign(t) ==
    /\ pc[t] = "rl_assign"
    /\ ip_requests' = loc[t].cleaned
    /\ loc' = [loc EXCEPT ![t].cleaned = <<>>]
    /\ Goto(t, "rl_check")
    /\ UNCHANGED <<now, cache, stored, admitLog, file, charges,
                   req, started, overlapped, confirmed>>

\* lines 115-117
RlCheck(t) ==
    /\ pc[t] = "rl_check"
    /\ IF req[t].ip \in DOMAIN ip_requests
       THEN IF Len(ip_requests[req[t].ip]) >= RATE_LIMIT_requests
            THEN /\ Finish(t, Response(429, FALSE, "Rate limit exceeded"))
                 /\ loc' = [loc EXCEPT ![t] = Drop([@ EXCEPT !.limiter = "rejected"])]
            ELSE /\ Goto(t, "rl_append")
                 /\ UNCHANGED loc
       ELSE /\ Goto(t, "rl_set")
            /\ UNCHANGED loc
    /\ UNCHANGED <<now, cache, stored, ip_requests, admitLog, file, charges,
                   req, started, overlapped, confirmed>>

Admit(t) ==
    /\ admitLog' = admitLog (+) SetToBag({[ip |-> req[t].ip, at |-> loc[t].current_time]})
    /\ loc' = [loc EXCEPT ![t] = Drop([@ EXCEPT !.limiter = "admitted"])]
    /\ Goto(t, Handler(req[t].route))

\* line 118: RATE_LIMIT['ip_requests'][ip].append(current_time); the key is looked
\* up again, in the dictionary as it is now
RlAppend(t) ==
    /\ pc[t] = "rl_append"
    /\ IF req[t].ip \in DOMAIN ip_requests
       THEN /\ ip_requests' = [ip_requests EXCEPT ![req[t].ip] = Append(@, loc[t].current_time)]
            /\ Admit(t)
       ELSE /\ Finish(t, Response(500, FALSE, "KeyError"))
            /\ loc' = [loc EXCEPT ![t] = Drop([@ EXCEPT !.limiter = "error"])]
            /\ UNCHANGED <<ip_requests, admitLog, confirmed>>
    /\ UNCHANGED <<now, cache, stored, file, charges,
                   req, started, overlapped, confirmed>>

\* line 120: RATE_LIMIT['ip_requests'][ip] = [current_time]
RlSet(t) ==
    /\ pc[t] = "rl_set"
    /\ ip_requests' = (req[t].ip :> <<loc[t].current_time>>) @@ ip_requests
    /\ Admit(t)
    /\ UNCHANGED <<now, cache, stored, file, charges,
                   req, started, overlapped, confirmed>>

\* get_currencies, lines 184-193
GcRespond(t) ==
    /\ pc[t] = "gc_respond"
    /\ Finish(t, Response(200, TRUE, "none"))
    /\ UNCHANGED <<now, cache, stored, ip_requests, admitLog, file, charges,
                   req, loc, started, overlapped, confirmed>>

(* ---------------- the payment history file ---------------- *)
\* load_payment_history: the file's list; a missing or corrupt file reads as []
load_payment_history(f) == f

\* save_payment_history on a disk that takes the write: the file holds the list
\* (json.dump with default=str writes every value) and the result is True
save_payment_history(f, history) == history

(* ---------------- token_required, get_payment_history ---------------- *)
\* lines 90-97: no token is 401; jwt.decode raises on a string that is no JWT and
\* on a wrong signature, data['user'] raises KeyError without the claim, and the
\* bare except answers 401 to all of them
token_required(token) ==
    IF token = "absent" THEN Response(401, FALSE, "Token is missing")
    ELSE IF token \in {"malformed", "wrong_signature", "no_user_claim"}
         THEN Response(401, FALSE, "Token is invalid")
    ELSE Response(0, TRUE, "none")

TkCheck(t) ==
    /\ pc[t] = "tk_check"
    /\ IF token_required(req[t].token).status = 0
       THEN Goto(t, "gph_respond")
       ELSE Finish(t, token_required(req[t].token))
    /\ UNCHANGED <<now, cache, stored, ip_requests, admitLog, file, charges,
                   req, loc, started, overlapped, confirmed>>

\* get_payment_history, lines 292-296: the list read from the file is returned
GphRespond(t) ==
    /\ pc[t] = "gph_respond"
    /\ loc' = [loc EXCEPT ![t] = Drop([@ EXCEPT !.history = load_payment_history(file)])]
    /\ Finish(t, Response(200, TRUE, "none"))
    /\ UNCHANGED <<now, cache, stored, ip_requests, admitLog, file, charges,
                   req, started, overlapped, confirmed>>

(* ---------------- get_exchange_rates ---------------- *)
\* where get_exchange_rates returns to
AfterRates(route) ==
    CASE route = "create_payment" -> "cp_charge"
      [] route = "get_exchange_rate" -> "gx_respond"

\* a freshness test that takes an age of exactly the window as fresh
IsFresh_atWindow(current_time, c) == current_time - c.timestamp <= CACHE_DURATION

\* line 128
IsFresh(current_time, c) == current_time - c.timestamp < CACHE_DURATION

\* a fallback that forgets the stored rates
FallbackRates_empty(c) == EmptyRates

\* line 139: return exchange_rate_cache['rates']
FallbackRates(c) == c.rates

\* lines 127-128
GerCheck(t) ==
    /\ pc[t] = "ger_check"
    /\ loc' = [loc EXCEPT ![t].current_time = now]
    /\ Goto(t, IF IsFresh(now, cache) THEN "ger_cached" ELSE "ger_fetch")
    /\ UNCHANGED <<now, cache, stored, ip_requests, admitLog, file, charges,
                   req, started, overlapped, confirmed>>

\* line 129
GerCached(t) ==
    /\ pc[t] = "ger_cached"
    /\ loc' = [loc EXCEPT ![t] = Drop([@ EXCEPT !.rates = cache.rates, !.fetch = "cached"])]
    /\ Goto(t, AfterRates(req[t].route))
    /\ UNCHANGED <<now, cache, stored, ip_requests, admitLog, file, charges,
                   req, started, overlapped, confirmed>>

\* lines 132-134: the fetch answers with rates, which are stored
GerFetchOk(t) ==
    /\ pc[t] = "ger_fetch"
    /\ \E rates \in ProviderRates :
          /\ cache' = [cache EXCEPT !.rates = rates]
          /\ loc' = [loc EXCEPT ![t].rates = rates, ![t].fetch = "ok"]
    /\ stored' = TRUE
    /\ Goto(t, "ger_stamp")
    /\ UNCHANGED <<now, ip_requests, admitLog, file, charges,
                   req, started, overlapped, confirmed>>

\* lines 132-133 raise; lines 137-139
GerFetchFail(t) ==
    /\ pc[t] = "ger_fetch"
    /\ \E failure \in FetchFailures :
          loc' = [loc EXCEPT ![t] = Drop([@ EXCEPT !.rates = FallbackRates(cache), !.fetch = "failed"])]
    /\ Goto(t, AfterRates(req[t].route))
    /\ UNCHANGED <<now, cache, stored, ip_requests, admitLog, file, charges,
                   req, started, overlapped, confirmed>>

\* line 132: requests.get(EXCHANGE_RATE_API) is called without a timeout, and
\* requests sets none of its own: when the provider never answers, the call never
\* returns and never raises
GerFetchHang(t) ==
    /\ pc[t] = "ger_fetch"
    /\ loc' = [loc EXCEPT ![t] = Drop([@ EXCEPT !.fetch = "waiting"])]
    /\ Goto(t, "ger_blocked")
    /\ UNCHANGED <<now, cache, stored, ip_requests, admitLog, file, charges,
                   req, started, overlapped, confirmed>>

\* lines 135-136
GerStamp(t) ==
    /\ pc[t] = "ger_stamp"
    /\ cache' = [cache EXCEPT !.timestamp = loc[t].current_time]
    /\ loc' = [loc EXCEPT ![t] = Drop(@)]
    /\ Goto(t, AfterRates(req[t].route))
    /\ UNCHANGED <<now, stored, ip_requests, admitLog, file, charges,
                   req, started, overlapped, confirmed>>

\* get_exchange_rate, lines 338-342
GxRespond(t) ==
    /\ pc[t] = "gx_respond"
    /\ loc' = [loc EXCEPT ![t].stamp = cache.timestamp]
    /\ Finish(t, Response(200, TRUE, "none"))
    /\ UNCHANGED <<now, cache, stored, ip_requests, admitLog, file, charges,
                   req, started, overlapped, confirmed>>

(* ---------------- create_payment ---------------- *)
AmountOf(r) == Float(GetOr(r.amount, "0"))
CurrencyOf(r) == GetOr(r.currency, "USD")
CryptoOf(r) == GetOr(r.crypto, "BTC")
\* data.get('description', f'Payment in {SUPPORTED_CRYPTOS[crypto]["name"]}')
DescriptionOf(r) == GetOr(r.description, <<"Payment in", SUPPORTED_CRYPTOS[CryptoOf(r)].name>>)

\* lines 201-216, in the order the code evaluates them: float(...) first, then
\* the default description, which indexes SUPPORTED_CRYPTOS whether or not a
\* description was sent; both raise into the handler's except (500)
Validate(r) ==
    IF ~IsFloat(GetOr(r.amount, "0")) THEN Response(500, FALSE, "ValueError")
    ELSE IF CryptoOf(r) \notin DOMAIN SUPPORTED_CRYPTOS THEN Response(500, FALSE, "KeyError")
    ELSE IF ~validate_payment_amount(AmountOf(r)) THEN Response(400, FALSE, "Invalid amount")
    ELSE IF CryptoOf(r) \notin DOMAIN SUPPORTED_CRYPTOS
         THEN Response(400, FALSE, "Unsupported cryptocurrency")
    ELSE IF CurrencyOf(r) \notin SUPPORTED_CURRENCIES
         THEN Response(400, FALSE, "Unsupported currency")
    ELSE Response(0, TRUE, "none")

\* the request bodies, each with the parts the handler reads before it answers:
\* the crypto code once float() accepted the amount, the currency once the
\* amount is positive and the crypto code is known
CreateBodies ==
    {r \in [amount : AmountInputs, crypto : CryptoInputs \cup {Unread},
            currency : CurrencyInputs \cup {Unread}] :
        /\ (r.crypto # Unread) <=> IsFloat(GetOr(r.amount, "0"))
        /\ (r.currency # Unread) <=>
              /\ IsFloat(GetOr(r.amount, "0"))
              /\ CryptoOf(r) \in DOMAIN SUPPORTED_CRYPTOS
              /\ validate_payment_amount(AmountOf(r))}

CpValidate(t) ==
    /\ pc[t] = "cp_validate"
    /\ \E body \in CreateBodies :
          LET r == [req[t] EXCEPT !.amount = body.amount, !.currency = body.currency,
                                  !.crypto = body.crypto]
          IN /\ req' = [req EXCEPT ![t] = r]
             /\ IF Validate(r).status = 0
                THEN Goto(t, "ger_check")
                ELSE Finish(t, Validate(r))
    /\ UNCHANGED <<now, cache, stored, ip_requests, admitLog, file, charges,
                   loc, started, overlapped, confirmed>>

\* flask.jsonify serialises dates, decimals, UUIDs and dataclasses; the status of
\* payment_info.__dict__ is the PaymentStatus member itself: TypeError
JsonifyRaises(info) == info.status = PENDING_str

\* charge['id']: the id is the provider's to choose; it is a new one, or one the
\* provider has returned before
IssuedIds(n) == 1..(n + 1)

\* lines 220-268: client.charge.create answers with a charge, or raises
CpCharge(t) ==
    /\ pc[t] = "cp_charge"
    /\ \E providerOk \in BOOLEAN, d \in DescriptionInputs, id \in IssuedIds(charges) :
          LET r == [req[t] EXCEPT !.description = d] IN
          /\ req' = [req EXCEPT ![t] = r]
          /\ IF providerOk
             THEN /\ charges' = IF id > charges THEN id ELSE charges
                  /\ loc' = [loc EXCEPT ![t].invoked = TRUE, ![t].rates = EmptyRates,
                                        ![t].payment = <<PaymentInfo(id, AmountOf(r),
                                            CurrencyOf(r), CryptoOf(r), now,
                                            RateFor(loc[t].rates, CurrencyOf(r)), "None",
                                            DescriptionOf(r))>>]
                  /\ Goto(t, "cp_load")
             ELSE /\ loc' = [loc EXCEPT ![t].invoked = TRUE, ![t].rates = EmptyRates]
                  /\ Finish(t, Response(500, FALSE, "ProviderError"))
                  /\ UNCHANGED charges
    /\ UNCHANGED <<now, cache, stored, ip_requests, admitLog, file,
                   started, overlapped, confirmed>>

\* line 271
CpLoad(t) ==
    /\ pc[t] = "cp_load"
    /\ loc' = [loc EXCEPT ![t].history = load_payment_history(file)]
    /\ Goto(t, "cp_save")
    /\ UNCHANGED <<now, cache, stored, ip_requests, admitLog, file, charges,
                   req, started, overlapped, confirmed>>

\* lines 272-284: the result of save_payment_history is not looked at
CpSave(t) ==
    /\ pc[t] = "cp_save"
    /\ file' = save_payment_history(file, loc[t].history \o loc[t].payment)
    /\ loc' = [loc EXCEPT ![t] = Drop([@ EXCEPT !.saved = TRUE])]
    /\ IF JsonifyRaises(loc[t].payment[1])
       THEN Finish(t, Response(500, FALSE, "TypeError"))
       ELSE Finish(t, Response(200, TRUE, "none"))
    /\ UNCHANGED <<now, cache, stored, ip_requests, admitLog, charges,
                   req, started, overlapped, confirmed>>

(* ---------------- webhook ---------------- *)
\* lines 318-322: the first record with the charge's id
Matches(history, id) == {i \in 1..Len(history) : history[i].id = id}
FirstMatch(history, id) == CHOOSE i \in Matches(history, id) : \A j \in Matches(history, id) : i <= j
\* a reconciliation that marks every record of the list
Confirm_all(history, id, at) ==
    [i \in 1..Len(history) |-> [history[i] EXCEPT !.status = COMPLETED_value, !.completed_at = {at}]]

\* a reconciliation that sets the status and leaves completed_at alone
Confirm_statusOnly(history, id, at) ==
    IF Matches(history, id) = {} THEN history
    ELSE [history EXCEPT ![FirstMatch(history, id)] = [@ EXCEPT !.status = COMPLETED_value]]

\* a reconciliation that marks the first record, whatever its id
Confirm_first(history, id, at) ==
    IF history = <<>> THEN history
    ELSE [history EXCEPT ![1] = [@ EXCEPT !.status = COMPLETED_value, !.completed_at = {at}]]

Confirm(history, id, at) ==
    IF Matches(history, id) = {} THEN history
    ELSE [history EXCEPT ![FirstMatch(history, id)] =
             [@ EXCEPT !.status = COMPLETED_value, !.completed_at = {at}]]

\* the notifications, each with the parts the handler reads: the event of a body
\* whose signature verifies, the charge id of a confirmation
Events ==
    {e \in [sigOk : BOOLEAN, evtype : EventTypes \cup {Unread}, chargeId : ChargeIds \cup {0}] :
        /\ (e.evtype # Unread) <=> e.sigOk
        /\ (e.chargeId # 0) <=> (e.evtype = "charge:confirmed")}

\* lines 304-312: Webhook.construct_event raises on a signature that does not
\* verify; the handler's except answers 500
WhVerify(t) ==
    /\ pc[t] = "wh_verify"
    /\ \E event \in Events :
       LET sigOk == event.sigOk  evtype == event.evtype IN
          /\ req' = [req EXCEPT ![t].sigOk = sigOk, ![t].evtype = evtype,
                                ![t].chargeId = event.chargeId]
          /\ IF ~sigOk THEN Finish(t, Response(500, FALSE, "SignatureVerificationError"))
             ELSE IF evtype = "charge:confirmed" THEN Goto(t, "wh_load")
             ELSE Finish(t, Response(200, TRUE, "none"))
    /\ UNCHANGED <<now, cache, stored, ip_requests, admitLog, file, charges,
                   loc, started, overlapped, confirmed>>

\* line 315
WhLoad(t) ==
    /\ pc[t] = "wh_load"
    /\ loc' = [loc EXCEPT ![t].history = load_payment_history(file)]
    /\ Goto(t, "wh_save")
    /\ UNCHANGED <<now, cache, stored, ip_requests, admitLog, file, charges,
                   req, started, overlapped, confirmed>>

\* lines 318-327
WhSave(t) ==
    /\ pc[t] = "wh_save"
    /\ file' = save_payment_history(file, Confirm(loc[t].history, req[t].chargeId, now))
    /\ loc' = [loc EXCEPT ![t] = Drop([@ EXCEPT !.saved = TRUE,
                             !.applied = (Matches(loc[t].history, req[t].chargeId) # {})])]
    /\ confirmed' = confirmed \cup {req[t].chargeId}
    /\ Finish(t, Response(200, TRUE, "none"))
    /\ UNCHANGED <<now, cache, stored, ip_requests, admitLog, charges,
                   req, started, overlapped>>

(* ---------------- the system ---------------- *)
\* the steps of the worker thread t
ThreadStep(t) ==
    \/ Start(t) \/ Return(t)
    \/ RlClean(t) \/ RlAssign(t) \/ RlCheck(t) \/ RlAppend(t) \/ RlSet(t)
    \/ GcRespond(t) \/ TkCheck(t) \/ GphRespond(t)
    \/ GerCheck(t) \/ GerCached(t) \/ GerFetchOk(t) \/ GerFetchFail(t) \/ GerFetchHang(t)
    \/ GerStamp(t) \/ GxRespond(t)
    \/ CpValidate(t) \/ CpCharge(t) \/ CpLoad(t) \/ CpSave(t)
    \/ WhVerify(t) \/ WhLoad(t) \/ WhSave(t)

Next ==
    \/ Tick
    \/ \E t \in Threads : ThreadStep(t)

Spec == Init /\ [][Next]_vars

(* ---------------- properties ---------------- *)
Quiescent == \A t \in Threads : pc[t] \in {"idle", "done"}
IsPending(r) == r.status = PENDING_str
IsCompleted(r) == r.status = COMPLETED_value
Finished(t, route) == pc[t] = "done" /\ req[t].route = route

\* C1: ReconcileNotification is idempotent: a verified "charge confirmed" event
\* applied to a ledger whose matching record is already Completed changes
\* nothing; completedAt keeps the instant the first application stamped.
C1_ConfirmIdempotent ==
    [][\A t \in Threads :
          ( /\ pc[t] = "wh_save" /\ pc'[t] = "done"
            /\ loc[t].history = file
            /\ Matches(file, req[t].chargeId) # {}
            /\ IsCompleted(file[FirstMatch(file, req[t].chargeId)]) )
          => file' = file]_vars

\* C2: no update is lost: once all requests have finished, the file holds every
\* record of a CreateCharge that reported success and the Completed status of
\* every record a notification confirmed.
C2_NoLostUpdate ==
    Quiescent =>
       \A t \in Threads :
          /\ (Finished(t, "create_payment") /\ resp[t].success)
                => \E i \in 1..Len(file) : file[i].id = loc[t].payment[1].id
          /\ (Finished(t, "webhook") /\ resp[t].success /\ loc[t].applied)
                => \E i \in 1..Len(file) : file[i].id = req[t].chargeId /\ IsCompleted(file[i])

\* C3: status is forward-only: a record the file shows as Completed (Failed,
\* Expired) is never shown as Pending by a later state of the file.
C3_ForwardOnly ==
    [][\A i \in 1..Len(file) :
          ~IsPending(file[i])
          => \A j \in 1..Len(file') : file'[j].id = file[i].id => ~IsPending(file'[j])]_vars

ValidInput(r) ==
    /\ r.amount # Unread /\ r.crypto # Unread /\ r.currency # Unread
    /\ IsFloat(GetOr(r.amount, "0")) /\ AmountOf(r) > 0
    /\ CryptoOf(r) \in DOMAIN SUPPORTED_CRYPTOS
    /\ CurrencyOf(r) \in SUPPORTED_CURRENCIES

\* C4: for a valid input CreateCharge either reports success with a Pending
\* record, with id and url, that the file holds, or fails with ProviderError
\* because the provider failed; it never reports success without the record.
C4_CreateChargeOutcome ==
    \A t \in Threads :
       (Finished(t, "create_payment") /\ ValidInput(req[t]))
       => \/ /\ resp[t].success /\ resp[t].status = 200
             /\ loc[t].payment # <<>>
             /\ IsPending(loc[t].payment[1])
             /\ loc[t].payment[1].id > 0
             /\ loc[t].payment[1].payment_url = HostedUrl(loc[t].payment[1].id)
             /\ \E i \in 1..Len(file) : file[i] = loc[t].payment[1]
          \/ /\ ~resp[t].success /\ resp[t].status = 500
             /\ loc[t].invoked /\ loc[t].payment = <<>>

\* C5: an amount that is not a number, or is <= 0, is answered with a
\* ValidationError (400); the provider is not invoked and nothing is appended.
C5_InvalidAmountRejected ==
    \A t \in Threads :
       ( /\ Finished(t, "create_payment") /\ req[t].amount # Unread
         /\ (IsFloat(GetOr(req[t].amount, "0")) => AmountOf(req[t]) <= 0) )
       => resp[t].status = 400 /\ ~loc[t].invoked /\ ~loc[t].saved

\* C6: a crypto code outside the catalog's crypto set, or a currency code outside
\* its fiat set, is answered with a ValidationError (400); the provider is not
\* invoked and nothing is appended.
C6_UnsupportedCodeRejected ==
    \A t \in Threads :
       ( /\ Finished(t, "create_payment")
         /\ \/ req[t].crypto # Unread /\ CryptoOf(req[t]) \notin DOMAIN SUPPORTED_CRYPTOS
            \/ req[t].currency # Unread /\ CurrencyOf(req[t]) \notin SUPPORTED_CURRENCIES )
       => resp[t].status = 400 /\ ~loc[t].invoked /\ ~loc[t].saved

\* C7: a verified confirmation whose charge id matches no record succeeds and
\* leaves the file as the other requests last wrote it.
C7_UnknownIdLeavesLedger ==
    [][\A t \in Threads :
          ( /\ pc[t] = "wh_save" /\ pc'[t] = "done"
            /\ Matches(loc[t].history, req[t].chargeId) = {}
            /\ Matches(file, req[t].chargeId) = {} )
          => resp'[t].success /\ file' = file]_vars

\* C8: for requests made one after the other, a request is admitted when fewer
\* than the ceiling were admitted for its key within the window, and rejected
\* with 429 otherwise.
C8_LimiterAdmitsUpToCeiling ==
    ~overlapped =>
       \A t \in Threads :
          (req[t].route \in RateLimited /\ pc[t] \notin {"rl_clean", "rl_assign", "rl_check", "rl_append", "rl_set"})
          => IF loc[t].seen < RATE_LIMIT_requests
             THEN loc[t].limiter = "admitted"
             ELSE loc[t].limiter = "rejected" /\ resp[t].status = 429

\* the instants RATE_LIMIT['ip_requests'] holds for ip within the window before t
Recorded(ip, t) ==
    IF ip \in DOMAIN ip_requests
    THEN Len(SelectSeq(ip_requests[ip], LAMBDA x : t - x < RATE_LIMIT_window))
    ELSE 0

\* C9: under every interleaving, no more than the ceiling are admitted for one
\* key within one window, and the instant of every admitted request is recorded.
C9_LimiterAtomic ==
    \A ip \in Clients :
       /\ Within(admitLog, ip, now) <= RATE_LIMIT_requests
       /\ Within(admitLog, ip, now) <= Recorded(ip, now)

C11_Freshness ==
    [][\A t \in Threads :
          /\ (pc[t] = "ger_check" /\ pc'[t] # "ger_check")
                => /\ cache' = cache
                   /\ pc'[t] = IF now - cache.timestamp < CACHE_DURATION
                               THEN "ger_cached" ELSE "ger_fetch"
          /\ (pc[t] = "ger_cached" /\ pc'[t] # "ger_cached")
                => /\ cache' = cache
                   /\ loc'[t].rates = cache.rates /\ loc'[t].fetch = "cached"
          /\ (pc[t] = "ger_fetch" /\ pc'[t] = "ger_stamp")
                => loc'[t].rates \in ProviderRates /\ cache'.rates = loc'[t].rates
          /\ (pc[t] = "ger_stamp" /\ pc'[t] # "ger_stamp")
                => /\ cache'.timestamp = now /\ cache'.rates = cache.rates
                   /\ ~overlapped => cache' = [rates |-> loc[t].rates, timestamp |-> now]]_vars

\* one call fetched and stored rates at the current time, and another call found
\* them fresh and returned them
C11_Witness ==
    \E t, u \in Threads :
       /\ loc[t].fetch = "ok" /\ pc[t] \notin {"ger_fetch", "ger_stamp"}
       /\ cache = [rates |-> loc[t].rates, timestamp |-> now]
       /\ loc[u].fetch = "cached" /\ loc[u].rates = cache.rates

\* C12: every (rates, fetch instant) pair /get_exchange_rate returns is a whole
\* snapshot. The snapshots are the initial one (no rates, instant 0) and those
\* of the successful refreshes (the provider's rates, the instant of the refresh):
\* a returned pair has no rates exactly when its instant is 0.
C12_NoTornSnapshot ==
    \A t \in Threads :
       (Finished(t, "get_exchange_rate") /\ resp[t].success)
       => (loc[t].rates = EmptyRates <=> loc[t].stamp = 0)

\* C13: the file never holds two records with one charge id.
C13_OneRecordPerId ==
    \A i, j \in 1..Len(file) : file[i].id = file[j].id => i = j

\* C14: a notification whose signature does not verify is answered with the
\* authentication failure (401), and writes nothing to the file.
C14_InvalidSignature401 ==
    \A t \in Threads :
       (Finished(t, "webhook") /\ ~req[t].sigOk)
       => resp[t].status = 401 /\ ~loc[t].saved

\* C15: a payment-history read answers with the ledger only to a token that
\* verifies and carries the identity claim; every request with another token,
\* or none, is answered 401.
C15_AuthGate ==
    \A t \in Threads :
       Finished(t, "get_payment_history")
       => /\ resp[t].success => (req[t].token = "valid" /\ resp[t].status = 200)
          /\ req[t].token # "valid" => resp[t].status = 401

SameButStatus(a, b) == \A f \in DOMAIN a \ {"status", "completed_at"} : a[f] = b[f]

\* C16: a confirmation writes back the ledger it read with the same number of
\* records in the same order; every record keeps every field other than status
\* and completedAt, and a record of another id keeps those two as well.
C16_ReconcileFrame ==
    [][\A t \in Threads :
          (pc[t] = "wh_save" /\ pc'[t] = "done")
          => /\ Len(file') = Len(loc[t].history)
             /\ \A i \in 1..Len(loc[t].history) :
                   /\ SameButStatus(file'[i], loc[t].history[i])
                   /\ loc[t].history[i].id # req[t].chargeId => file'[i] = loc[t].history[i]]_vars

\* a confirmation was applied to a ledger of two records: the file holds the
\* confirmed record and, untouched, a Pending record of another id
C16_Witness ==
    \E t \in Threads :
       /\ Finished(t, "webhook") /\ loc[t].applied
       /\ Len(file) = 2
       /\ \E i, j \in 1..2 :
             /\ file[i].id = req[t].chargeId /\ IsCompleted(file[i])
             /\ file[j].id # req[t].chargeId /\ IsPending(file[j])

\* C17: when the rates returned to CreateCharge hold no rate for the requested
\* currency, the charge is still created and the record's exchangeRate is not
\* a substituted value.
C17_RateNotSubstituted ==
    [][\A t \in Threads :
          ( /\ pc[t] = "cp_charge" /\ pc'[t] = "cp_load"
            /\ CurrencyOf(req[t]) \notin DOMAIN loc[t].rates )
          => loc'[t].payment[1].exchange_rate # DefaultRate]_vars

\* C18: no request waits forever: a request that has begun and has not been
\* answered always has a next step, whatever the providers do.
C18_NoRequestWaitsForever ==
    \A t \in Threads : pc[t] \notin {"idle", "done"} => ENABLED ThreadStep(t)

\* C19: a record the file shows as Completed has the id of a notification that
\* passed the signature check, had type "charge:confirmed" and was processed;
\* no other request completes a record.
C19_CompletedOnlyByConfirmation ==
    \A i \in 1..Len(file) : IsCompleted(file[i]) => file[i].id \in confirmed

\* a confirmed record beside a record no notification named, which is Pending
C19_Witness ==
    \E i, j \in 1..Len(file) :
       /\ IsCompleted(file[i]) /\ file[i].id \in confirmed
       /\ file[j].id \notin confirmed /\ IsPending(file[j])

\* C20: in every state of the file a record has completedAt exactly when its
\* status is Completed.
C20_CompletedAtIffCompleted ==
    \A i \in 1..Len(file) : IsCompleted(file[i]) <=> file[i].completed_at # {}

\* the file holds a record with completedAt and a Pending record without
C20_Witness ==
    \E i, j \in 1..Len(file) :
       /\ file[i].completed_at # {} /\ IsCompleted(file[i])
       /\ file[j].completed_at = {} /\ IsPending(file[j])

====
